---- MODULE Spec2Model ----
(***************************************************************************)
(* Speaker role classification of dj_stat_ratio5.py.                       *)
(*                                                                         *)
(* calculate_stats_multi_guest(df) is modelled statement block by          *)
(* statement block: the frame df is a sequence of rows, a Python dict is a *)
(* sequence of <<key, value>> pairs in insertion order, a list is a        *)
(* sequence.  Row index idx is 0-based as in the source (the frame comes   *)
(* from read_csv, so index labels and positions coincide); df.iloc[i] is   *)
(* df[i + 1].                                                              *)
(*                                                                         *)
(* A speaker name SPEAKER_n is the number n (n >= 1).  A Speakers cell is  *)
(* either a non-string (NaN of an empty csv cell) or a text, a sequence of *)
(* tokens where token n >= 1 is the substring SPEAKER_n and token 0 is any *)
(* text the pattern does not match.                                        *)
(*                                                                         *)
(* Durations are whole milliseconds and sums are exact.                    *)
(***************************************************************************)
EXTENDS Integers, Sequences, FiniteSets, TLC

\* ---------------------------------------------------------------- bounds
MaxLen == 3        \* longest frame built from the full set of rows
MaxWinLen == 7     \* longest frame built from the neighbourhood rows
NumLabels == 3     \* speaker names SPEAKER_1 .. SPEAKER_NumLabels
MaxDur == 1        \* Duration cells are 0, 6, .., 6 * MaxDur milliseconds
MaxCount == 101    \* largest interaction count of the classifier specification

Labels == 1 .. NumLabels

VARIABLES pc, df0, df, duration_stats, sorted_durations, dj_id, dj_duration,
          speaker_indices, interaction_counts, candidates, guest_list, results

vars == <<pc, df0, df, duration_stats, sorted_durations, dj_id, dj_duration,
          speaker_indices, interaction_counts, candidates, guest_list, results>>

\* ------------------------------------------------------------- constants
None == 0
MIN_ABSOLUTE_THRESHOLD == 12
RELATIVE_RATIO == <<1, 5>>          \* 0.2 as numerator, denominator
FREE_PASS_THRESHOLD == 20
Offsets == <<-3, -2, -1, 1, 2, 3>>

\* ---------------------------------------------------------- dict helpers
\* d.keys()
Keys(d) == [i \in 1 .. Len(d) |-> d[i][1]]

HasKey(d, k) == \E i \in 1 .. Len(d) : d[i][1] = k

\* d.get(k, default)
DictGet(d, k, default) ==
    IF HasKey(d, k) THEN d[CHOOSE i \in 1 .. Len(d) : d[i][1] = k][2] ELSE default

\* d[k] = v : an existing key keeps its place, a new key goes last
DictSet(d, k, v) ==
    IF HasKey(d, k)
    THEN [i \in 1 .. Len(d) |-> IF d[i][1] = k THEN <<k, v>> ELSE d[i]]
    ELSE Append(d, <<k, v>>)

\* ------------------------------------------------------ label extraction
NaN == [isstr |-> FALSE, text |-> <<>>]

Str(t) == [isstr |-> TRUE, text |-> t]

RECURSIVE FirstMatch(_, _)
\* re.search(r"(SPEAKER_\d+)", s): the leftmost match, None without one
FirstMatch(text, k) ==
    IF k > Len(text) THEN None
    ELSE IF text[k] >= 1 THEN text[k]
    ELSE FirstMatch(text, k + 1)

get_dominant_speaker(speaker_str) ==
    IF ~speaker_str.isstr THEN None ELSE FirstMatch(speaker_str.text, 1)

\* variant: the row's Type is not consulted
DominantOfRow_AnyType(row) == get_dominant_speaker(row.Speakers)

\* the lambda of df.apply: the label of a speech row, None for any other row
DominantOfRow(row) ==
    IF row.Type = "speech" THEN get_dominant_speaker(row.Speakers) ELSE None

\* df['Dominant_Speaker'] = df.apply(...): the frame gains a column
WithDominantColumn(frame) ==
    [i \in 1 .. Len(frame) |->
        [Type |-> frame[i].Type, Speakers |-> frame[i].Speakers,
         Duration |-> frame[i].Duration,
         Dominant_Speaker |-> DominantOfRow(frame[i])]]

\* -------------------------------------------------- duration aggregation
RECURSIVE AggregateFrom_Overwrite(_, _, _)
\* variant: the row's Duration replaces the speaker's total
AggregateFrom_Overwrite(frame, k, stats) ==
    IF k > Len(frame) THEN stats
    ELSE IF frame[k].Type # "speech" THEN AggregateFrom_Overwrite(frame, k + 1, stats)
    ELSE IF frame[k].Dominant_Speaker # None
         THEN AggregateFrom_Overwrite(frame, k + 1,
                  DictSet(stats, frame[k].Dominant_Speaker, frame[k].Duration))
         ELSE AggregateFrom_Overwrite(frame, k + 1, stats)

RECURSIVE AggregateFrom(_, _, _)
\* the loop of lines 27-31 from row k on, stats being the dict so far
AggregateFrom(frame, k, stats) ==
    IF k > Len(frame) THEN stats
    ELSE IF frame[k].Type # "speech" THEN AggregateFrom(frame, k + 1, stats)
    ELSE IF frame[k].Dominant_Speaker # None
         THEN AggregateFrom(frame, k + 1,
                  DictSet(stats, frame[k].Dominant_Speaker,
                          DictGet(stats, frame[k].Dominant_Speaker, 0)
                              + frame[k].Duration))
         ELSE AggregateFrom(frame, k + 1, stats)

DurationStats(frame) == AggregateFrom(frame, 1, <<>>)

\* ------------------------------------------------------------ stable sort
RECURSIVE InsertDesc_Strict(_, _, _)
\* variant: x goes before elements of equal value
InsertDesc_Strict(s, x, k) ==
    IF k > Len(s) THEN Append(s, x)
    ELSE IF s[k][2] > x[2] THEN InsertDesc_Strict(s, x, k + 1)
    ELSE SubSeq(s, 1, k - 1) \o <<x>> \o SubSeq(s, k, Len(s))

RECURSIVE InsertDesc(_, _, _)
\* x goes behind every element whose value is >= its own
InsertDesc(s, x, k) ==
    IF k > Len(s) THEN Append(s, x)
    ELSE IF s[k][2] >= x[2] THEN InsertDesc(s, x, k + 1)
    ELSE SubSeq(s, 1, k - 1) \o <<x>> \o SubSeq(s, k, Len(s))

RECURSIVE SortDescFrom(_, _, _)
SortDescFrom(items, k, acc) ==
    IF k > Len(items) THEN acc
    ELSE SortDescFrom(items, k + 1, InsertDesc(acc, items[k], 1))

RECURSIVE InsertAsc(_, _, _)
InsertAsc(s, x, k) ==
    IF k > Len(s) THEN Append(s, x)
    ELSE IF s[k][2] <= x[2] THEN InsertAsc(s, x, k + 1)
    ELSE SubSeq(s, 1, k - 1) \o <<x>> \o SubSeq(s, k, Len(s))

RECURSIVE SortAscFrom(_, _, _)
SortAscFrom(items, k, acc) ==
    IF k > Len(items) THEN acc
    ELSE SortAscFrom(items, k + 1, InsertAsc(acc, items[k], 1))

\* variant: reverse=True is missing
SortedByValueDesc_Asc(items) == SortAscFrom(items, 1, <<>>)

\* sorted(items, key=lambda x: x[1], reverse=True): descending by value,
\* equal values keep the order of items
SortedByValueDesc(items) == SortDescFrom(items, 1, <<>>)

\* --------------------------------------------------- interaction counting
RECURSIVE IndexFrom(_, _, _)
\* the loop of lines 42-46: idx (0-based) is appended to its speaker's list
IndexFrom(frame, k, idxs) ==
    IF k > Len(frame) THEN idxs
    ELSE IF frame[k].Type # "speech" THEN IndexFrom(frame, k + 1, idxs)
    ELSE IF frame[k].Dominant_Speaker # None
         THEN IndexFrom(frame, k + 1,
                  DictSet(idxs, frame[k].Dominant_Speaker,
                          Append(DictGet(idxs, frame[k].Dominant_Speaker, <<>>),
                                 k - 1)))
         ELSE IndexFrom(frame, k + 1, idxs)

SpeakerIndices(frame, stats) ==
    IndexFrom(frame, 1, [i \in 1 .. Len(stats) |-> <<Keys(stats)[i], <<>>>>])

RECURSIVE ScanOffsets_NoBreak(_, _, _, _)
\* variant: the scan goes on after a hit
ScanOffsets_NoBreak(frame, idx, dj, k) ==
    IF k > Len(Offsets) THEN 0
    ELSE LET neighbor_idx == idx + Offsets[k] IN
         IF 0 <= neighbor_idx /\ neighbor_idx < Len(frame)
            /\ frame[neighbor_idx + 1].Dominant_Speaker = dj
         THEN 1 + ScanOffsets_NoBreak(frame, idx, dj, k + 1)
         ELSE ScanOffsets_NoBreak(frame, idx, dj, k + 1)

RECURSIVE ScanOffsets(_, _, _, _)
\* the loop of lines 57-63 for one idx from offset number k on: 1 as soon as
\* an in-range neighbour carries the DJ's label (break), 0 when none does
ScanOffsets(frame, idx, dj, k) ==
    IF k > Len(Offsets) THEN 0
    ELSE LET neighbor_idx == idx + Offsets[k] IN
         IF 0 <= neighbor_idx /\ neighbor_idx < Len(frame)
            /\ frame[neighbor_idx + 1].Dominant_Speaker = dj
         THEN 1
         ELSE ScanOffsets(frame, idx, dj, k + 1)

RECURSIVE CountOver(_, _, _, _)
\* the loop of lines 54-63 over one speaker's indices
CountOver(frame, indices, dj, k) ==
    IF k > Len(indices) THEN 0
    ELSE ScanOffsets(frame, indices[k], dj, 1) + CountOver(frame, indices, dj, k + 1)

\* variant: the DJ's own rows are scanned like any other speaker's
InteractionCounts_DjScanned(frame, idxs, dj) ==
    [i \in 1 .. Len(idxs) |-> <<idxs[i][1], CountOver(frame, idxs[i][2], dj, 1)>>]

InteractionCounts(frame, idxs, dj) ==
    [i \in 1 .. Len(idxs) |->
        IF idxs[i][1] = dj THEN <<idxs[i][1], 0>>
        ELSE <<idxs[i][1], CountOver(frame, idxs[i][2], dj, 1)>>]

\* --------------------------------------------------------- classification
RECURSIVE NonDjItems(_, _, _)
\* [(spk, cnt) for spk, cnt in interaction_counts.items() if spk != dj_id]
NonDjItems(counts, dj, k) ==
    IF k > Len(counts) THEN <<>>
    ELSE (IF counts[k][1] # dj THEN <<counts[k]>> ELSE <<>>)
         \o NonDjItems(counts, dj, k + 1)

Candidates(counts, dj) == SortedByValueDesc(NonDjItems(counts, dj, 1))

\* variant: min in place of max
PassesCutoff_Min(cnt, top_guest_cnt) ==
    \/ cnt >= MIN_ABSOLUTE_THRESHOLD
    \/ cnt * RELATIVE_RATIO[2] >= top_guest_cnt * RELATIVE_RATIO[1]

\* cnt >= max(MIN_ABSOLUTE_THRESHOLD, top_guest_cnt * RELATIVE_RATIO),
\* compared after multiplying both sides by the ratio's denominator
PassesCutoff(cnt, top_guest_cnt) ==
    /\ cnt >= MIN_ABSOLUTE_THRESHOLD
    /\ cnt * RELATIVE_RATIO[2] >= top_guest_cnt * RELATIVE_RATIO[1]

\* variant: the free pass is missing
IsGuest_NoFreePass(cnt, top_guest_cnt) ==
    /\ cnt >= MIN_ABSOLUTE_THRESHOLD
    /\ cnt * RELATIVE_RATIO[2] >= top_guest_cnt * RELATIVE_RATIO[1]

IsGuest(cnt, top_guest_cnt) ==
    IF cnt >= FREE_PASS_THRESHOLD THEN TRUE
    ELSE PassesCutoff(cnt, top_guest_cnt)

RECURSIVE GuestsFrom(_, _, _)
\* the loop of lines 90-105 from candidate k on
GuestsFrom(cands, top_guest_cnt, k) ==
    IF k > Len(cands) THEN <<>>
    ELSE (IF IsGuest(cands[k][2], top_guest_cnt) THEN <<cands[k][1]>> ELSE <<>>)
         \o GuestsFrom(cands, top_guest_cnt, k + 1)

GuestList(cands) ==
    IF cands = <<>> THEN <<>> ELSE GuestsFrom(cands, cands[1][2], 1)

\* --------------------------------------------------------- result records
InList(l, x) == \E i \in 1 .. Len(l) : l[i] = x

RoleOf(spk, dj, guests) ==
    IF spk = dj THEN "DJ"
    ELSE IF InList(guests, spk) THEN "GUEST"
    ELSE "AD_SPEAKER"

\* round(total_dur, 2): milliseconds to the nearest hundredth of a second.
\* Duration cells are multiples of 6 ms, so no total lies halfway.
Round2(ms) == (ms + 5) \div 10

\* f"{total_dur / dj_duration * 100:.1f}" in tenths of a percent, 0.0 for a
\* zero dj_duration; exact quotient, a halfway value goes to the even digit
RatioToDj(total_dur, djdur) ==
    IF djdur > 0
    THEN LET q == (total_dur * 1000) \div djdur
             r == (total_dur * 1000) % djdur
         IN  IF 2 * r < djdur THEN q
             ELSE IF 2 * r > djdur THEN q + 1
             ELSE IF q % 2 = 0 THEN q ELSE q + 1
    ELSE 0

BuildRecords(sorted, dj, djdur, guests, counts) ==
    [i \in 1 .. Len(sorted) |->
        [Speaker |-> sorted[i][1],
         Role |-> RoleOf(sorted[i][1], dj, guests),
         Total_Duration |-> Round2(sorted[i][2]),
         Ratio_to_DJ |-> RatioToDj(sorted[i][2], djdur),
         Interaction_Count |-> DictGet(counts, sorted[i][1], 0)]]

\* calculate_stats_multi_guest as a whole: the records of the returned frame
PipelineResult(frame) ==
    LET f == WithDominantColumn(frame)
        stats == DurationStats(f)
    IN  IF stats = <<>> THEN <<>>
        ELSE LET sorted == SortedByValueDesc(stats)
                 dj == sorted[1][1]
                 counts == InteractionCounts(f, SpeakerIndices(f, stats), dj)
             IN  BuildRecords(sorted, dj, sorted[1][2],
                              GuestList(Candidates(counts, dj)), counts)

\* ------------------------------------------------------------ input frames
RawFields ==
    {NaN, Str(<<0>>), Str(<<0, 1>>), Str(<<2, 1>>)}
    \cup {Str(<<n>>) : n \in 3 .. NumLabels}

Durations == {6 * k : k \in 0 .. MaxDur}

Rows ==
    [Type : {"speech"}, Speakers : RawFields, Duration : Durations]
    \cup [Type : {"music"}, Speakers : {Str(<<0, 1>>), Str(<<2, 1>>)},
          Duration : {6 * MaxDur}]

Frames == UNION {[1 .. n -> Rows] : n \in 1 .. MaxLen}

\* longer frames over few rows: a long-speaking SPEAKER_1, a silent
\* SPEAKER_2, a music row naming SPEAKER_1
WinRows ==
    {[Type |-> "speech", Speakers |-> Str(<<0, 1>>), Duration |-> 6 * MaxDur],
     [Type |-> "speech", Speakers |-> Str(<<2, 1>>), Duration |-> 0],
     [Type |-> "music", Speakers |-> Str(<<0, 1>>), Duration |-> 6 * MaxDur]}

WinFrames == UNION {[1 .. n -> WinRows] : n \in MaxLen + 1 .. MaxWinLen}

\* ------------------------------------------------------------------ states
Init ==
    /\ df0 \in Frames \cup WinFrames
    /\ df = df0
    /\ pc = "extract"
    /\ duration_stats = <<>>
    /\ sorted_durations = <<>>
    /\ dj_id = None
    /\ dj_duration = 0
    /\ speaker_indices = <<>>
    /\ interaction_counts = <<>>
    /\ candidates = <<>>
    /\ guest_list = <<>>
    /\ results = <<>>

\* lines 20-23
Extract ==
    /\ pc = "extract"
    /\ df' = WithDominantColumn(df)
    /\ pc' = "aggregate"
    /\ UNCHANGED <<df0, duration_stats, sorted_durations, dj_id, dj_duration,
                   speaker_indices, interaction_counts, candidates, guest_list,
                   results>>

\* lines 26-31
Aggregate ==
    /\ pc = "aggregate"
    /\ duration_stats' = DurationStats(df)
    /\ pc' = "select"
    /\ UNCHANGED <<df0, df, sorted_durations, dj_id, dj_duration,
                   speaker_indices, interaction_counts, candidates, guest_list,
                   results>>

\* line 33: no speaker, the empty frame is returned
ReturnEmpty ==
    /\ pc = "select"
    /\ duration_stats = <<>>
    /\ results' = <<>>
    /\ pc' = "done"
    /\ UNCHANGED <<df0, df, duration_stats, sorted_durations, dj_id, dj_duration,
                   speaker_indices, interaction_counts, candidates, guest_list>>

\* lines 35-37
SelectDj ==
    /\ pc = "select"
    /\ duration_stats # <<>>
    /\ sorted_durations' = SortedByValueDesc(duration_stats)
    /\ dj_id' = sorted_durations'[1][1]
    /\ dj_duration' = sorted_durations'[1][2]
    /\ pc' = "index"
    /\ UNCHANGED <<df0, df, duration_stats, speaker_indices, interaction_counts,
                   candidates, guest_list, results>>

\* lines 41-46
IndexSpeakers ==
    /\ pc = "index"
    /\ speaker_indices' = SpeakerIndices(df, duration_stats)
    /\ pc' = "count"
    /\ UNCHANGED <<df0, df, duration_stats, sorted_durations, dj_id, dj_duration,
                   interaction_counts, candidates, guest_list, results>>

\* lines 48-64
CountInteractions ==
    /\ pc = "count"
    /\ interaction_counts' = InteractionCounts(df, speaker_indices, dj_id)
    /\ pc' = "classify"
    /\ UNCHANGED <<df0, df, duration_stats, sorted_durations, dj_id, dj_duration,
                   speaker_indices, candidates, guest_list, results>>

\* lines 67-105
Classify ==
    /\ pc = "classify"
    /\ candidates' = Candidates(interaction_counts, dj_id)
    /\ guest_list' = GuestList(candidates')
    /\ pc' = "build"
    /\ UNCHANGED <<df0, df, duration_stats, sorted_durations, dj_id, dj_duration,
                   speaker_indices, interaction_counts, results>>

\* lines 108-128
BuildResults ==
    /\ pc = "build"
    /\ results' = BuildRecords(sorted_durations, dj_id, dj_duration, guest_list,
                               interaction_counts)
    /\ pc' = "done"
    /\ UNCHANGED <<df0, df, duration_stats, sorted_durations, dj_id, dj_duration,
                   speaker_indices, interaction_counts, candidates, guest_list>>

Next ==
    \/ Extract
    \/ Aggregate
    \/ ReturnEmpty
    \/ SelectDj
    \/ IndexSpeakers
    \/ CountInteractions
    \/ Classify
    \/ BuildResults

Spec == Init /\ [][Next]_vars

\* -------------------------------------------------- classifier on its own
\* Lines 67-128 read interaction_counts, dj_id, dj_duration and
\* sorted_durations only.  The classifier specification starts at line 67
\* with these drawn from bounded sets, so that counts around the thresholds
\* 12, 20 and a fifth of the top count occur; the frame and the index
\* lists, which these lines do not read, are left empty.  The DJ is the
\* first or the last key of the dicts.
StatsWithDj(h) == [i \in 1 .. NumLabels |-> <<i, IF i = h THEN 6 * MaxDur ELSE 0>>]

InitClassify ==
    /\ df0 = <<>>
    /\ df = <<>>
    /\ pc = "classify"
    /\ \E h \in {1, NumLabels} :
          /\ duration_stats = StatsWithDj(h)
          /\ sorted_durations = SortedByValueDesc(StatsWithDj(h))
          /\ dj_id = h
          /\ dj_duration = 6 * MaxDur
          /\ \E c \in [Labels \ {h} -> 0 .. MaxCount] :
                interaction_counts =
                    [i \in 1 .. NumLabels |-> <<i, IF i = h THEN 0 ELSE c[i]>>]
    /\ speaker_indices = <<>>
    /\ candidates = <<>>
    /\ guest_list = <<>>
    /\ results = <<>>

NextClassify ==
    \/ Classify
    \/ BuildResults

SpecClassify == InitClassify /\ [][NextClassify]_vars

\* ------------------------------------------------------------ properties
\* What the description says of a run, stated over the caller's frame df0.

\* the label a segment yields: extracted from Speech segments only
SpeechLabel(i) ==
    IF df0[i].Type = "speech" THEN get_dominant_speaker(df0[i].Speakers) ELSE None

LabelsSeen == {SpeechLabel(i) : i \in 1 .. Len(df0)} \ {None}

RECURSIVE TotalUpTo(_, _)
TotalUpTo(L, n) ==
    IF n = 0 THEN 0
    ELSE TotalUpTo(L, n - 1) + (IF SpeechLabel(n) = L THEN df0[n].Duration ELSE 0)

\* total duration of label L over the whole sequence
TotalOf(L) == TotalUpTo(L, Len(df0))

\* position of the first Speech segment labelled L
FirstPos(L) ==
    CHOOSE i \in 1 .. Len(df0) :
        SpeechLabel(i) = L /\ \A j \in 1 .. i - 1 : SpeechLabel(j) # L

RECURSIVE SumValues(_, _)
SumValues(d, n) == IF n = 0 THEN 0 ELSE SumValues(d, n - 1) + d[n][2]

Window == {-3, -2, -1, 1, 2, 3}

\* positions around p, inside the sequence, whose segment yields label h
NearWith(p, h) ==
    {q \in 1 .. Len(df0) : q - p \in Window /\ SpeechLabel(q) = h}

\* occurrences of L that have the host h in their neighbourhood
Interactions(L, h) ==
    {p \in 1 .. Len(df0) : SpeechLabel(p) = L /\ NearWith(p, h) # {}}

RecordsOf(role) == {i \in 1 .. Len(results) : results[i].Role = role}

NonHostRecords == {i \in 1 .. Len(results) : results[i].Speaker # dj_id}

CountOf(i) == DictGet(interaction_counts, results[i].Speaker, -1)

NonHostCounts == {interaction_counts[i][2] : i \in
                    {j \in 1 .. Len(interaction_counts) : interaction_counts[j][1] # dj_id}}

TopCount == CHOOSE c \in NonHostCounts : \A x \in NonHostCounts : x <= c

\* C1: whenever some Speech segment yields a label, the DJ is a label of
\* maximal total duration, and among labels sharing that maximum the one
\* whose first labelled Speech segment comes earliest; the DJ record of the
\* output names it.
C1_HostIsMaxDuration ==
    /\ (pc = "done" /\ LabelsSeen # {}) =>
          \E i \in 1 .. Len(results) :
              results[i].Role = "DJ" /\ results[i].Speaker = dj_id
    /\ (pc \in {"index", "count", "classify", "build", "done"} /\ LabelsSeen # {}) =>
          /\ dj_id \in LabelsSeen
          /\ dj_duration = TotalOf(dj_id)
          /\ \A L \in LabelsSeen :
                /\ TotalOf(L) <= TotalOf(dj_id)
                /\ TotalOf(L) = TotalOf(dj_id) => FirstPos(dj_id) <= FirstPos(L)

\* a finished run where two labels share the positive maximum and the DJ is
\* not the label with the smaller number
C1_Witness ==
    /\ pc = "done"
    /\ dj_id # None
    /\ TotalOf(dj_id) > 0
    /\ \E L \in LabelsSeen :
          L < dj_id /\ TotalOf(L) = TotalOf(dj_id) /\ FirstPos(dj_id) < FirstPos(L)

C3_InteractionCount ==
    (pc \in {"classify", "build", "done"} /\ dj_id # None) =>
        /\ \A L \in LabelsSeen \ {dj_id} :
              DictGet(interaction_counts, L, -1) = Cardinality(Interactions(L, dj_id))
        /\ pc = "done" =>
              \A i \in NonHostRecords :
                  results[i].Interaction_Count
                      = Cardinality(Interactions(results[i].Speaker, dj_id))

\* a finished run where one occurrence of a non-host label has two host
\* neighbours and another has the host four positions away and no nearer
C3_Witness ==
    /\ pc = "done"
    /\ dj_id # None
    /\ \E L \in LabelsSeen \ {dj_id} :
          /\ \E p \in 1 .. Len(df0) :
                SpeechLabel(p) = L /\ Cardinality(NearWith(p, dj_id)) >= 2
          /\ \E p \in 1 .. Len(df0) :
                /\ SpeechLabel(p) = L
                /\ NearWith(p, dj_id) = {}
                /\ \E q \in 1 .. Len(df0) :
                      q - p \in {-4, 4} /\ SpeechLabel(q) = dj_id

\* C4: the output has exactly one DJ record when some Speech segment yields
\* a label and no record at all otherwise; the DJ's Interaction_Count is 0.
C4_OneHost ==
    pc = "done" =>
        IF LabelsSeen # {}
        THEN /\ Cardinality(RecordsOf("DJ")) = 1
             /\ \A i \in RecordsOf("DJ") : results[i].Interaction_Count = 0
        ELSE results = <<>>

\* a finished run with several speakers where two host segments are
\* neighbours of each other
C4_Witness ==
    /\ pc = "done"
    /\ Len(results) >= 2
    /\ Interactions(dj_id, dj_id) # {}
    /\ \E i \in RecordsOf("DJ") : results[i].Interaction_Count = 0

\* C5: the totals of the aggregation add up to the durations of the Speech
\* segments that yield a label; other segments add nothing.
C5_DurationSum ==
    pc \notin {"extract", "aggregate"} =>
        /\ SumValues(duration_stats, Len(duration_stats))
              = SumValues([i \in 1 .. Len(df0) |->
                              <<i, IF SpeechLabel(i) # None
                                   THEN df0[i].Duration ELSE 0>>], Len(df0))
        /\ \A k \in 1 .. Len(duration_stats) :
              duration_stats[k][2] = TotalOf(duration_stats[k][1])

\* a finished run on a frame with a label heard twice for a positive time
\* and a segment of positive duration that is not Speech or yields no label
C5_Witness ==
    /\ pc = "done"
    /\ \E i, j \in 1 .. Len(df0) :
          /\ i # j
          /\ SpeechLabel(i) # None
          /\ SpeechLabel(i) = SpeechLabel(j)
          /\ df0[i].Duration > 0
          /\ df0[j].Duration > 0
    /\ \E i \in 1 .. Len(df0) : SpeechLabel(i) = None /\ df0[i].Duration > 0

\* C6: the output has one record for each label some Speech segment yields
\* and no other, in non-increasing order of total duration, DJ first.
C6_RecordsOrdered ==
    pc = "done" =>
        /\ {results[i].Speaker : i \in 1 .. Len(results)} = LabelsSeen
        /\ Len(results) = Cardinality(LabelsSeen)
        /\ \A i, j \in 1 .. Len(results) :
              i < j => /\ results[i].Total_Duration >= results[j].Total_Duration
                       /\ TotalOf(results[i].Speaker) >= TotalOf(results[j].Speaker)
        /\ \A i \in 1 .. Len(results) :
              results[i].Total_Duration = Round2(TotalOf(results[i].Speaker))
        /\ results # <<>> => results[1].Role = "DJ"

\* three records whose order differs from the order the labels were met in
C6_Witness ==
    /\ pc = "done"
    /\ Len(results) = 3
    /\ results[1].Total_Duration > results[3].Total_Duration
    /\ FirstPos(results[3].Speaker) < FirstPos(results[1].Speaker)

\* a frame with every non-Speech segment's speaker field and duration blanked
Scrub(frame) ==
    [i \in 1 .. Len(frame) |->
        IF frame[i].Type = "speech" THEN frame[i]
        ELSE [Type |-> frame[i].Type, Speakers |-> NaN, Duration |-> 0]]

\* C7: a non-Speech segment contributes no label: its Dominant_Speaker is
\* None, no index list holds its position, and the output is the one the
\* same frame gives with the speaker fields and durations of its non-Speech
\* segments blanked.
C7_NonSpeechNoLabel ==
    /\ pc # "extract" =>
          \A i \in 1 .. Len(df) :
              df[i].Type # "speech" => df[i].Dominant_Speaker = None
    /\ \A k \in 1 .. Len(speaker_indices) :
          \A j \in 1 .. Len(speaker_indices[k][2]) :
              df0[speaker_indices[k][2][j] + 1].Type = "speech"
    /\ \A k \in 1 .. Len(duration_stats) : duration_stats[k][1] \in LabelsSeen
    /\ pc = "done" => results = PipelineResult(Scrub(df0))

\* a finished run where a music segment names the DJ next to a non-host
\* Speech segment that has no host Speech segment around it
C7_Witness ==
    /\ pc = "done"
    /\ dj_id # None
    /\ \E m, p \in 1 .. Len(df0) :
          /\ df0[m].Type # "speech"
          /\ df0[m].Duration > 0
          /\ get_dominant_speaker(df0[m].Speakers) = dj_id
          /\ m - p \in Window
          /\ SpeechLabel(p) \notin {None, dj_id}
          /\ NearWith(p, dj_id) = {}
          /\ DictGet(interaction_counts, SpeechLabel(p), -1) = 0

\* C8: the call leaves the caller's frame as it was: the same records with
\* the same fields.
C8_InputUnchanged == df = df0

\* C9: a non-host speaker with 15 or more interactions is GUEST whatever the
\* top count is.
C9_FifteenIsGuest ==
    pc = "done" =>
        \A i \in NonHostRecords : CountOf(i) >= 15 => results[i].Role = "GUEST"

\* C10: among non-host labels a count at least that of a GUEST is a GUEST's,
\* no count below 12 is a GUEST's, and there is a GUEST iff the top non-host
\* count is at least 12.
C10_GuestUpwardClosed ==
    pc = "done" =>
        /\ \A a, b \in NonHostRecords :
              (CountOf(a) <= CountOf(b) /\ results[a].Role = "GUEST")
                  => results[b].Role = "GUEST"
        /\ \A a \in NonHostRecords : CountOf(a) < 12 => results[a].Role # "GUEST"
        /\ (RecordsOf("GUEST") # {}) <=> (NonHostCounts # {} /\ TopCount >= 12)

\* a GUEST with exactly 12 interactions beside a refused label with fewer
C10_Witness ==
    /\ pc = "done"
    /\ \E a, b \in NonHostRecords :
          /\ CountOf(a) = 12 /\ results[a].Role = "GUEST"
          /\ CountOf(b) \in 1 .. 11 /\ results[b].Role = "AD_SPEAKER"

====
